---- MODULE Spec2Model ----
(***************************************************************************)
(* Artifactory sync tool: recursive download of a source tree into a       *)
(* temporary directory, flat upload of that directory to a destination,    *)
(* bounded exponential-backoff retry of single HTTP requests.              *)
(*                                                                         *)
(* Strings are sequences of tokens: the token "/" is the path separator,   *)
(* every other token is one path component.  The code only ever inspects   *)
(* strings at separators (lstrip('/'), rstrip('/'), joins), so this keeps  *)
(* every string operation of the code observable.                          *)
(***************************************************************************)
EXTENDS Integers, Sequences, FiniteSets, Bags, TLC

----------------------------------------------------------------------------
(* Bounds of the model *)

\* retries ranges over 0..MaxRetries in the retry specification
MaxRetries == 4
\* how many staged files the environment may make unreadable before upload
MaxUnreadable == 1
\* how many of the four credentials may be missing or empty in one run
MaxMissingCreds == 1

----------------------------------------------------------------------------
(* String helpers *)

RECURSIVE LStrip(_)
\* str.lstrip('/')
LStrip(s) == IF s # <<>> /\ Head(s) = "/" THEN LStrip(Tail(s)) ELSE s

RECURSIVE RStrip(_)
\* str.rstrip('/')
RStrip(s) == IF s # <<>> /\ s[Len(s)] = "/" THEN RStrip(SubSeq(s, 1, Len(s) - 1)) ELSE s

\* local_dir / artifact_path  (pathlib join of a relative path)
PathJoin(dir, p) == IF p = <<>> THEN dir ELSE dir \o <<"/">> \o p

\* local_file.relative_to(local_dir), as a slash-separated string
RelativeTo(file, dir) == SubSeq(file, Len(dir) + 2, Len(file))

\* p lies strictly below folder q (q = <<>> is the repository root)
IsUnder(p, q) ==
    IF q = <<>> THEN p # <<>>
    ELSE /\ Len(p) > Len(q) + 1
         /\ SubSeq(p, 1, Len(q)) = q
         /\ p[Len(q) + 1] = "/"

\* p is an immediate child of folder q
IsChild(p, q) ==
    /\ IsUnder(p, q)
    /\ LET rest == IF q = <<>> THEN p ELSE SubSeq(p, Len(q) + 2, Len(p))
       IN  \A i \in 1..Len(rest) : rest[i] # "/"

----------------------------------------------------------------------------
(* The remote source repository: the environment of the run *)

File(p)   == [path |-> p, folder |-> FALSE]
Folder(p) == [path |-> p, folder |-> TRUE]

\* source trees the runs are checked on
Trees ==
    { {},
      {File(<<"f">>)},
      {Folder(<<"d">>), File(<<"d", "/", "g">>), File(<<"f">>)},
      {Folder(<<"d">>), File(<<"d", "/", "g">>), Folder(<<"e">>)},
      {Folder(<<"d">>), Folder(<<"d", "/", "e">>), File(<<"d", "/", "e", "/", "h">>)} }

\* --source-path values
SourcePaths == { <<>>, <<"/", "d">> }

\* --dest-path values
DestPaths == { <<>>, <<"x", "/", "y">>, <<"x", "/">> }

\* content of the destination repository before the run
Dest0 == (<<"x", "/", "y", "/", "f">> :> [src |-> <<"old">>, complete |-> TRUE, body |-> "whole"])

\* tempfile.TemporaryDirectory() path
TempDir == <<"/", "tmp">>

\* folder `path` exists on the server
PathExists(tree, path) == path = <<>> \/ Folder(path) \in tree

\* What the server answers to the listing request.  deep = '1' asks for
\* every descendant of the folder, listFolders = '1' includes folders;
\* each entry carries the repository-relative uri with a leading slash.
\* Whether the server honours deep is a property of the server
\* (cfg.server_deep): a run is checked against both kinds.
ServerList(tree, path, deep, listFolders) ==
    { [uri |-> <<"/">> \o n.path, folder |-> n.folder] :
        n \in { m \in tree : /\ IF deep THEN IsUnder(m.path, path) ELSE IsChild(m.path, path)
                             /\ (m.folder => listFolders) } }

\* file nodes reachable by recursive listing from `path`
ReachableFiles(tree, path) == { n.path : n \in { m \in tree : ~m.folder /\ IsUnder(m.path, path) } }

----------------------------------------------------------------------------
(* ArtifactoryClient._retry_request *)

\* ArtifactoryClient.__init__ default
DefaultRetries == 3

RECURSIVE Pow2(_)
Pow2(n) == IF n = 0 THEN 1 ELSE 2 * Pow2(n - 1)

RECURSIVE RetryLoop_BackoffFromTwo(_, _, _, _, _)
\* variant: the backoff exponent is taken one too high (2, 4, ...)
RetryLoop_BackoffFromTwo(plan, retries, attempt, sleeps, last_exception) ==
    IF attempt >= retries
    THEN [status   |-> "raised",
          exc      |-> IF last_exception = -1 THEN "TypeError" ELSE "RequestException",
          last     |-> last_exception,
          attempts |-> attempt,
          sleeps   |-> sleeps]
    ELSE IF plan[attempt + 1]
    THEN [status   |-> "returned",
          exc      |-> "none",
          last     |-> last_exception,
          attempts |-> attempt + 1,
          sleeps   |-> sleeps]
    ELSE RetryLoop_BackoffFromTwo(plan, retries, attempt + 1,
                   IF attempt < retries - 1 THEN Append(sleeps, Pow2(attempt + 1)) ELSE sleeps,
                   attempt)

RECURSIVE RetryLoop(_, _, _, _, _)
\* plan[i] is the outcome of the i-th request sent (TRUE: 2xx response).
\* last_exception is the index of the attempt whose exception is kept,
\* -1 for None.
RetryLoop(plan, retries, attempt, sleeps, last_exception) ==
    IF attempt >= retries
    THEN [status   |-> "raised",
          exc      |-> IF last_exception = -1 THEN "TypeError" ELSE "RequestException",
          last     |-> last_exception,
          attempts |-> attempt,
          sleeps   |-> sleeps]
    ELSE IF plan[attempt + 1]
    THEN [status   |-> "returned",
          exc      |-> "none",
          last     |-> last_exception,
          attempts |-> attempt + 1,
          sleeps   |-> sleeps]
    ELSE RetryLoop(plan, retries, attempt + 1,
                   IF attempt < retries - 1 THEN Append(sleeps, Pow2(attempt)) ELSE sleeps,
                   attempt)

\* variant: the exception of the first failed attempt is the one kept
_retry_request_KeepsFirst(plan, retries) ==
    [RetryLoop(plan, retries, 0, <<>>, -1) EXCEPT !.last = IF @ = -1 THEN -1 ELSE 0]

_retry_request(plan, retries) == RetryLoop(plan, retries, 0, <<>>, -1)

\* outcome sequences of the requests one call may send
Plans(n) == [1..n -> BOOLEAN]

----------------------------------------------------------------------------
(* ArtifactoryClient / JFrogCLIClient operations *)

\* params of the listing request in ArtifactoryClient.list_artifacts
ListDeep == TRUE
ListFolders == TRUE

\* what may happen on the local disk / response stream once the download
\* request itself has succeeded
LocalOutcomes == {"ok", "os_open", "stream_fail", "os_write"}

\* list_artifacts: "ok" with the results, or the exception it raises.
\* REST: _retry_request, RequestException re-raised after the retries.
\* JFrog CLI: one command, RuntimeError when it fails.
list_artifacts(jfrog, tree, server_deep, path, plan) ==
    LET p == LStrip(path)
        sent == IF jfrog THEN 1 ELSE _retry_request(plan, DefaultRetries).attempts
        \* REST: a folder that does not exist is a 404 on every attempt;
        \* jf search just matches nothing
        ok == IF jfrog THEN plan[1]
              ELSE /\ PathExists(tree, p)
                   /\ _retry_request(plan, DefaultRetries).status = "returned"
    IN  IF ok
        THEN [exc |-> "none", results |-> ServerList(tree, p, ListDeep /\ server_deep, ListFolders), requests |-> sent]
        ELSE [exc |-> IF jfrog THEN "RuntimeError" ELSE "RequestException",
              results |-> {}, requests |-> sent]

\* variant: an interrupted response body still counts as downloaded
download_file_IgnoresStreamFailure(jfrog, plan, env) ==
    IF jfrog
    THEN IF env = "os_open" THEN [ret |-> "OSError", file |-> "keep"]
         ELSE IF plan[1] /\ env = "ok" THEN [ret |-> "True", file |-> "full"]
         ELSE [ret |-> "False", file |-> "keep"]
    ELSE LET r == _retry_request(plan, DefaultRetries)
         IN  IF r.status = "raised"
             THEN [ret |-> IF r.exc = "RequestException" THEN "False" ELSE r.exc, file |-> "keep"]
             ELSE CASE env = "os_open"     -> [ret |-> "OSError", file |-> "keep"]
                    [] env = "stream_fail" -> [ret |-> "True",    file |-> "partial"]
                    [] env = "os_write"    -> [ret |-> "OSError", file |-> "partial"]
                    [] OTHER               -> [ret |-> "True",    file |-> "full"]

\* download_file: ret is "True", "False" or the exception that escapes;
\* JFrog CLI: mkdir of the parent is outside any try (OSError escapes), the
\* jf command writes the file itself and a failed command is False.
\* file is what the call leaves at local_path ("keep": untouched).
\* ArtifactoryClient.download_file of a client built with the given retries:
\* only RequestException is caught (line 226); what else _retry_request or
\* the file operations raise leaves the method.
rest_download_file(retries, plan, env) ==
    LET r == _retry_request(plan, retries)
    IN  IF r.status = "raised"
        THEN [ret |-> IF r.exc = "RequestException" THEN "False" ELSE r.exc,
              file |-> "keep", requests |-> r.attempts]
        ELSE CASE env = "os_open"     -> [ret |-> "OSError", file |-> "keep",    requests |-> r.attempts]
               [] env = "stream_fail" -> [ret |-> "False",   file |-> "partial", requests |-> r.attempts]
               [] env = "os_write"    -> [ret |-> "OSError", file |-> "partial", requests |-> r.attempts]
               [] OTHER               -> [ret |-> "True",    file |-> "full",    requests |-> r.attempts]

download_file(jfrog, plan, env) ==
    IF jfrog
    THEN IF env = "os_open" THEN [ret |-> "OSError", file |-> "keep"]
         ELSE IF plan[1] /\ env = "ok" THEN [ret |-> "True", file |-> "full"]
         ELSE [ret |-> "False", file |-> "keep"]
    ELSE LET r == rest_download_file(DefaultRetries, plan, env)
         IN  [ret |-> r.ret, file |-> r.file]

\* what the request that succeeded carried as its body.  The file object
\* is opened once (line 271) and handed to every attempt: an attempt that
\* failed after reading from it leaves the position behind the start, and
\* the next attempt sends what is left from there.
BodySent(attempts, consumed) == IF attempts > 1 /\ consumed THEN "rest" ELSE "whole"

\* variant: dry_run is not looked at
upload_file_NoDryRun(jfrog, dry_run, readable, plan, consumed) ==
    IF jfrog
    THEN IF ~readable THEN [ret |-> "False", requests |-> 0, stored |-> FALSE, body |-> "none"]
         ELSE IF plan[1] THEN [ret |-> "True", requests |-> 1, stored |-> TRUE, body |-> "whole"]
         ELSE [ret |-> "False", requests |-> 1, stored |-> FALSE, body |-> "none"]
    ELSE IF ~readable THEN [ret |-> "OSError", requests |-> 0, stored |-> FALSE, body |-> "none"]
         ELSE LET r == _retry_request(plan, DefaultRetries)
              IN  IF r.status = "returned"
                  THEN [ret |-> "True", requests |-> r.attempts, stored |-> TRUE,
                        body |-> BodySent(r.attempts, consumed)]
                  ELSE [ret |-> "False", requests |-> r.attempts, stored |-> FALSE,
                        body |-> "none"]

\* upload_file: ret as above, requests is the number of upload requests
\* (HTTP PUT or jf upload commands) sent, stored tells whether the
\* destination now holds the file, body what was stored.
\* ArtifactoryClient.upload_file of a client built with the given retries:
\* stat() (lines 260, 266) and open() (line 271) raise OSError for a file
\* that cannot be read, and only RequestException is caught (line 278).
rest_upload_file(retries, dry_run, readable, plan, consumed) ==
    IF ~readable THEN [ret |-> "OSError", requests |-> 0, stored |-> FALSE, body |-> "none"]
    ELSE IF dry_run THEN [ret |-> "True", requests |-> 0, stored |-> FALSE, body |-> "none"]
    ELSE LET r == _retry_request(plan, retries)
         IN  IF r.status = "returned"
             THEN [ret |-> "True", requests |-> r.attempts, stored |-> TRUE,
                   body |-> BodySent(r.attempts, consumed)]
             ELSE [ret |-> IF r.exc = "RequestException" THEN "False" ELSE r.exc,
                   requests |-> r.attempts, stored |-> FALSE, body |-> "none"]

upload_file(jfrog, dry_run, readable, plan, consumed) ==
    IF jfrog
    THEN IF ~readable THEN [ret |-> "False", requests |-> 0, stored |-> FALSE, body |-> "none"]
         ELSE IF dry_run THEN [ret |-> "True", requests |-> 0, stored |-> FALSE, body |-> "none"]
         ELSE IF plan[1] THEN [ret |-> "True", requests |-> 1, stored |-> TRUE, body |-> "whole"]
         ELSE [ret |-> "False", requests |-> 1, stored |-> FALSE, body |-> "none"]
    ELSE rest_upload_file(DefaultRetries, dry_run, readable, plan, consumed)

----------------------------------------------------------------------------
(* State *)

VARIABLES
    cfg,          \* command line options, environment variables, source server
    pc,           \* where sync_artifacts stands
    exitCode,     \* -1 while running, then the process exit code
    uncaught,     \* exception that left sync_artifacts unhandled, or "none"
    clients,      \* both client objects have been constructed
    stack,        \* frames of download_artifacts_recursively, innermost last
    dlResult,     \* (download_success, download_fail) once returned
    staged,       \* files in the temporary directory: local path -> content
    tempExists,   \* the temporary directory exists
    tempCreated,  \* the temporary directory was created in this run
    unreadable,   \* staged files whose stat()/open() raises OSError
    upPhase,      \* "none", "running", "returned", "raised"
    upFiles,      \* files_list of upload_artifacts_recursively
    upTodo,       \* files of files_list not yet processed
    upCount,      \* success_count, fail_count of the upload loop
    upResult,     \* (upload_success, upload_fail) once returned
    dest,         \* destination repository: artifact path -> content
    kept,         \* the copy made by --keep-temp: whether made, and its files
    listCalls,    \* bag of list_artifacts calls: [side, path]
    dlCalls,      \* bag of download_file calls: [artifact, local, ret]
    upCalls,      \* bag of upload_file calls: [artifact, local]
    putCount,     \* upload requests sent to the destination
    errs,         \* kinds of failure that occurred so far
    rq,           \* one call of _retry_request: inputs and result
    run1,         \* outcome of an earlier run or call that the current one is compared with
    fate,         \* the outcome every backend and disk operation has, when it is fixed in advance
    progress,     \* the [idx/total_files] pairs printed by the upload loop of src/scripts
    sessions      \* requests.Session objects created so far, and which client holds which

vars == <<cfg, pc, exitCode, uncaught, clients, stack, dlResult, staged, tempExists,
          tempCreated, unreadable, upPhase, upFiles, upTodo, upCount, upResult,
          dest, kept, listCalls, dlCalls, upCalls, putCount, errs, rq, run1, fate, progress,
          sessions>>

\* os.getenv result: None, '' or a value
None == <<"<None>">>
CredValues == {None, <<>>, <<"u">>}

\* variant: only None is rejected
Falsy_NoneOnly(x) == x = None

\* Python truthiness of an optional string
Falsy(x) == x = None \/ x = <<>>

Configs ==
    [use_jfrog_cli : BOOLEAN, dry_run : BOOLEAN, validate : BOOLEAN, keep_temp : BOOLEAN,
     source_path : SourcePaths, dest_path : DestPaths, tree : Trees, server_deep : BOOLEAN,
     source_username : CredValues, source_password : CredValues,
     dest_username : CredValues, dest_password : CredValues]

RqIdle == [retries |-> 0, plan |-> <<>>, status |-> "idle", exc |-> "none", last |-> -1,
           attempts |-> 0, sleeps |-> <<>>]

\* no earlier call of upload_artifacts_recursively
NoRun == [done |-> FALSE, result |-> <<>>, dest |-> <<>>, dl |-> <<>>, staged |-> <<>>,
          calls |-> EmptyBag, pc |-> "Start", exitCode |-> -1]

\* outcomes are not fixed in advance: every call may end in every way
NoFate == [fixed |-> FALSE]

AllOk == [i \in 1..DefaultRetries |-> TRUE]
AllFail == [i \in 1..DefaultRetries |-> FALSE]

\* request outcomes of the listing of folder `path`
ListPlans(path) ==
    IF fate.fixed
    THEN {IF fate.node[LStrip(path)] = "list_fail" THEN AllFail ELSE AllOk}
    ELSE Plans(DefaultRetries)

\* request outcomes and local outcome of the download of artifact p
DownloadFates(p) ==
    IF fate.fixed
    THEN {<<IF fate.node[p] = "req_fail" THEN AllFail ELSE AllOk,
            IF fate.node[p] \in {"os_open", "stream_fail", "os_write"} THEN fate.node[p]
            ELSE "ok">>}
    ELSE Plans(DefaultRetries) \X LocalOutcomes

\* request outcomes of the upload of local_file
UploadPlans(local_file) ==
    IF fate.fixed
    THEN {IF fate.up[RelativeTo(local_file, TempDir)] = "req_fail" THEN AllFail ELSE AllOk}
    ELSE Plans(DefaultRetries)

\* the sets of staged files that may turn out to be unreadable
UnreadableSets(files) ==
    IF fate.fixed
    THEN {{l \in files : fate.up[RelativeTo(l, TempDir)] = "unreadable"}}
    ELSE {bad \in SUBSET files : Cardinality(bad) <= MaxUnreadable}

\* whether creating or copying the temporary directory may fail
DiskOks == IF fate.fixed THEN {TRUE} ELSE BOOLEAN

\* no session object exists, no client holds one
NoSessions == [objs |-> <<>>, source |-> 0, dest |-> 0, entered |-> FALSE]

\* self.session = requests.Session() in the constructor of the client of
\* `side`: a new object, open, held by that client only
NewSession(ss, side) ==
    [ss EXCEPT !.objs = Append(@, "open"), ![side] = Len(ss.objs) + 1]

\* ArtifactoryClient.__exit__: self.session.close()
CloseSession(ss, side) ==
    IF ss[side] = 0 THEN ss ELSE [ss EXCEPT !.objs[ss[side]] = "closed"]

\* leaving the block `with source_client_obj as ..., dest_client_obj as ...`:
\* __exit__ of both clients runs, on every way out of the block
ExitClients(ss) == CloseSession(CloseSession(ss, "dest"), "source")

\* the sessions after a step of sync_artifacts other than the construction
\* of the clients: the with block is left exactly when the run ends
SessionsStep ==
    sessions' = IF pc' \in {"Done", "Aborted"} /\ pc \notin {"Done", "Aborted"} /\ sessions.entered
                THEN ExitClients(sessions)
                ELSE sessions

RunInit ==
    /\ pc = "Start"
    /\ sessions = NoSessions
    /\ exitCode = -1
    /\ uncaught = "none"
    /\ clients = FALSE
    /\ stack = <<>>
    /\ dlResult = <<>>
    /\ staged = <<>>
    /\ tempExists = FALSE
    /\ tempCreated = FALSE
    /\ unreadable = {}
    /\ upPhase = "none"
    /\ upFiles = {}
    /\ upTodo = {}
    /\ upCount = <<0, 0>>
    /\ upResult = <<>>
    /\ dest = Dest0
    /\ kept = [copied |-> FALSE, files |-> <<>>]
    /\ progress = <<>>
    /\ run1 = NoRun
    /\ listCalls = EmptyBag
    /\ dlCalls = EmptyBag
    /\ upCalls = EmptyBag
    /\ putCount = 0
    /\ errs = {}

\* the credentials of c that are missing or empty
MissingCreds(c) ==
    {k \in {"source_username", "source_password", "dest_username", "dest_password"} :
        Falsy(c[k])}

Init ==
    /\ cfg \in {c \in Configs : Cardinality(MissingCreds(c)) <= MaxMissingCreds}
    /\ RunInit
    /\ rq = RqIdle
    /\ fate = NoFate

----------------------------------------------------------------------------
(* sync_artifacts *)

AddCall(bag, c) == bag (+) SetToBag({c})

\* variant: the directory is only removed at the end of a complete run
Leave_KeepsTemp(code, exc) ==
    /\ pc' = "Aborted"
    /\ exitCode' = code
    /\ uncaught' = exc
    /\ UNCHANGED <<tempExists, staged>>

\* An exception (or SystemExit) leaves the with blocks of sync_artifacts:
\* TemporaryDirectory.__exit__ removes the directory, then the process
\* ends.  exc names the exception when no except clause of sync_artifacts
\* handles it.
Leave(code, exc) ==
    /\ pc' = "Aborted"
    /\ exitCode' = code
    /\ uncaught' = exc
    /\ tempExists' = FALSE
    /\ staged' = <<>>

\* base URLs as token sequences: scheme, "://", host
GoodUrl == <<"https", "://", "h">>
Urls == {GoodUrl, <<"h">>, <<"https", "://">>}

\* urlparse(url).scheme and .netloc
UrlScheme(url) == IF Len(url) >= 2 /\ url[2] = "://" THEN url[1] ELSE ""
UrlNetloc(url) == IF Len(url) >= 3 /\ url[2] = "://" THEN url[3] ELSE ""

\* ArtifactoryClient._validate_url: TRUE when it returns, FALSE when it
\* raises ValueError
_validate_url(url) == UrlScheme(url) # "" /\ UrlNetloc(url) # ""

\* --source-url and --dest-url
SourceUrl == IF "source_url" \in DOMAIN cfg THEN cfg.source_url ELSE GoodUrl
DestUrl == IF "dest_url" \in DOMAIN cfg THEN cfg.dest_url ELSE GoodUrl

\* lines 803-823: the four environment variables
CheckCredentials ==
    /\ pc = "Start"
    /\ IF Falsy(cfg.source_username) \/ Falsy(cfg.source_password)
       THEN pc' = "Aborted" /\ exitCode' = 1 /\ errs' = errs \cup {"cred_fail"}
       ELSE IF Falsy(cfg.dest_username) \/ Falsy(cfg.dest_password)
       THEN pc' = "Aborted" /\ exitCode' = 1 /\ errs' = errs \cup {"cred_fail"}
       ELSE pc' = "InitClients" /\ exitCode' = exitCode /\ errs' = errs
    /\ UNCHANGED <<cfg, uncaught, clients, stack, dlResult, staged, tempExists, tempCreated,
                   unreadable, upPhase, upFiles, upTodo, upCount, upResult, dest, kept,
                   listCalls, dlCalls, upCalls, putCount, rq, run1, fate, progress>>
    /\ SessionsStep

\* lines 842-849 with lines 56-59 and 286-300: the source client is
\* constructed, then the destination client, then the with block is entered.
\* ArtifactoryClient.__init__ validates the URL (line 56) before it creates
\* its session (line 59); JFrogCLIClient creates no session.  A constructor
\* that raises leaves what was created before it as it is.
ConstructClients(ss) ==
    IF cfg.use_jfrog_cli THEN [ss EXCEPT !.entered = TRUE]
    ELSE IF ~_validate_url(SourceUrl) THEN ss
    ELSE IF ~_validate_url(DestUrl) THEN NewSession(ss, "source")
    ELSE [NewSession(NewSession(ss, "source"), "dest") EXCEPT !.entered = TRUE]

\* lines 842-849: both clients are constructed and entered
InitClients ==
    /\ pc = "InitClients"
    /\ IF ~cfg.use_jfrog_cli /\ ~(_validate_url(SourceUrl) /\ _validate_url(DestUrl))
       THEN \* ValueError raised by ArtifactoryClient.__init__, handled nowhere
            /\ Leave(1, "ValueError")
            /\ errs' = errs \cup {"url_fail"}
            /\ UNCHANGED clients
       ELSE /\ clients' = TRUE
            /\ pc' = IF cfg.validate THEN "ValidateSource" ELSE "MkTemp"
            /\ UNCHANGED <<exitCode, uncaught, tempExists, staged, errs>>
    /\ sessions' = ConstructClients(sessions)
    /\ UNCHANGED <<cfg, stack, dlResult, tempCreated, unreadable, upPhase, upFiles, upTodo,
                   upCount, upResult, dest, kept, listCalls, dlCalls, upCalls, putCount, rq,
                   run1, fate, progress>>

\* variant: a failed validation is reported and the run goes on
Validate_Continue(side, next) ==
    /\ pc = side
    /\ \E plan \in Plans(DefaultRetries) :
         LET r == list_artifacts(cfg.use_jfrog_cli,
                                 IF side = "ValidateSource" THEN cfg.tree ELSE {},
                                 cfg.server_deep, <<>>, plan)
         IN  /\ listCalls' = AddCall(listCalls, [side |-> side, path |-> <<>>])
             /\ pc' = next
             /\ errs' = IF r.exc = "none" THEN errs ELSE errs \cup {"validate_fail"}
             /\ UNCHANGED <<exitCode, uncaught, tempExists, staged>>
    /\ UNCHANGED <<cfg, clients, stack, dlResult, tempCreated, unreadable, upPhase, upFiles,
                   upTodo, upCount, upResult, dest, kept, dlCalls, upCalls, putCount, rq, run1, fate, progress>>
    /\ SessionsStep

\* lines 856-871: one root listing per side, any exception => sys.exit(1)
Validate(side, next) ==
    /\ pc = side
    /\ \E plan \in Plans(DefaultRetries) :
         LET r == list_artifacts(cfg.use_jfrog_cli,
                                 IF side = "ValidateSource" THEN cfg.tree ELSE {},
                                 cfg.server_deep, <<>>, plan)
         IN  /\ listCalls' = AddCall(listCalls, [side |-> side, path |-> <<>>])
             /\ IF r.exc = "none"
                THEN /\ pc' = next
                     /\ UNCHANGED <<exitCode, uncaught, tempExists, staged, errs>>
                ELSE /\ Leave(1, "none")
                     /\ errs' = errs \cup {"validate_fail"}
    /\ UNCHANGED <<cfg, clients, stack, dlResult, tempCreated, unreadable, upPhase, upFiles,
                   upTodo, upCount, upResult, dest, kept, dlCalls, upCalls, putCount, rq, run1, fate, progress>>
    /\ SessionsStep

ValidateSource == Validate("ValidateSource", "ValidateDest")

ValidateDest == Validate("ValidateDest", "MkTemp")

NewFrame(path) == [path |-> path, st |-> "list", todo |-> {}, success_count |-> 0, fail_count |-> 0]

\* line 874: tempfile.TemporaryDirectory(), then the call of
\* download_artifacts_recursively(source_client, source_repo, source_path, temp_path)
MkTemp ==
    /\ pc = "MkTemp"
    /\ \E ok \in DiskOks :
         IF ok
         THEN /\ tempExists' = TRUE
              /\ tempCreated' = TRUE
              /\ pc' = "Download"
              /\ stack' = <<NewFrame(cfg.source_path)>>
              /\ UNCHANGED <<exitCode, uncaught, staged, errs>>
         ELSE /\ Leave(1, "none")
              /\ errs' = errs \cup {"oserror"}
              /\ UNCHANGED <<tempCreated, stack>>
    /\ UNCHANGED <<cfg, clients, dlResult, unreadable, upPhase, upFiles, upTodo, upCount,
                   upResult, dest, kept, listCalls, dlCalls, upCalls, putCount, rq, run1, fate, progress>>
    /\ SessionsStep

----------------------------------------------------------------------------
(* download_artifacts_recursively *)

Top == stack[Len(stack)]

SetTop(f) == [stack EXCEPT ![Len(stack)] = f]

\* failure kinds recorded when a listing fails: of a subfolder or of src_path
ListFailure == IF Len(stack) > 1 THEN {"list_fail", "sub_list_fail"} ELSE {"list_fail"}

\* line 584: the listing of the innermost call.  An empty result returns at
\* once; RequestException is caught by this call (line 616), any other
\* exception leaves every call and sync_artifacts.
DownloadList ==
    /\ pc = "Download"
    /\ stack # <<>>
    /\ Top.st = "list"
    /\ \E plan \in ListPlans(Top.path) :
         LET r == list_artifacts(cfg.use_jfrog_cli, cfg.tree, cfg.server_deep, Top.path, plan)
         IN  /\ listCalls' = AddCall(listCalls, [side |-> "Download", path |-> Top.path])
             /\ CASE r.exc = "none" ->
                       /\ stack' = SetTop([Top EXCEPT !.st = IF r.results = {} THEN "ret" ELSE "loop",
                                                       !.todo = r.results])
                       /\ UNCHANGED <<pc, exitCode, uncaught, tempExists, staged, errs>>
                  [] r.exc = "RequestException" ->
                       /\ stack' = SetTop([Top EXCEPT !.st = "ret"])
                       /\ errs' = errs \cup ListFailure
                       /\ UNCHANGED <<pc, exitCode, uncaught, tempExists, staged>>
                  [] OTHER ->
                       /\ Leave(1, r.exc)
                       /\ errs' = errs \cup ListFailure
                       /\ UNCHANGED stack
    /\ UNCHANGED <<cfg, clients, dlResult, tempCreated, unreadable, upPhase, upFiles, upTodo,
                   upCount, upResult, dest, kept, dlCalls, upCalls, putCount, rq, run1, fate, progress>>
    /\ SessionsStep

\* content left at local_path by one download_file call
Written(old, file, artifact_path, local_file) ==
    CASE file = "full"    -> (local_file :> [src |-> artifact_path, complete |-> TRUE]) @@ old
      [] file = "partial" -> (local_file :> [src |-> artifact_path, complete |-> FALSE]) @@ old
      [] OTHER            -> old

\* lines 604-615: one file entry of the listing
DownloadFile ==
    /\ pc = "Download"
    /\ stack # <<>>
    /\ Top.st = "loop"
    /\ \E artifact \in Top.todo : \E o \in DownloadFates(LStrip(artifact.uri)) :
         /\ ~artifact.folder
         /\ LET artifact_path == LStrip(artifact.uri)
                plan == o[1]
                env == o[2]
                local_file == PathJoin(TempDir, artifact_path)
                r == download_file(cfg.use_jfrog_cli, plan, env)
                rest == Top.todo \ {artifact}
            IN  /\ dlCalls' = AddCall(dlCalls, [artifact |-> artifact_path, local |-> local_file,
                                                     ret |-> r.ret, file |-> r.file])
                /\ staged' = Written(staged, r.file, artifact_path, local_file)
                /\ CASE r.ret = "True" ->
                          /\ stack' = SetTop([Top EXCEPT !.todo = rest,
                                                          !.success_count = @ + 1])
                          /\ errs' = errs
                     [] r.ret = "False" ->
                          /\ stack' = SetTop([Top EXCEPT !.todo = rest,
                                                          !.fail_count = @ + 1])
                          /\ errs' = errs \cup {"dl_fail"}
                     [] OTHER ->
                          \* OSError: caught by this call (line 616), the loop is left
                          /\ stack' = SetTop([Top EXCEPT !.todo = rest, !.st = "ret"])
                          /\ errs' = errs \cup {"dl_oserror"}
    /\ UNCHANGED <<cfg, pc, exitCode, uncaught, clients, dlResult, tempExists, tempCreated,
                   unreadable, upPhase, upFiles, upTodo, upCount, upResult, dest, kept,
                   listCalls, upCalls, putCount, rq, run1, fate, progress>>
    /\ SessionsStep

\* lines 595-601: one folder entry of the listing, the recursive call
DownloadEnter ==
    /\ pc = "Download"
    /\ stack # <<>>
    /\ Top.st = "loop"
    /\ \E artifact \in Top.todo :
         /\ artifact.folder
         /\ stack' = Append(SetTop([Top EXCEPT !.todo = @ \ {artifact}]),
                            NewFrame(LStrip(artifact.uri)))
    /\ UNCHANGED <<cfg, pc, exitCode, uncaught, clients, dlResult, staged, tempExists,
                   tempCreated, unreadable, upPhase, upFiles, upTodo, upCount, upResult, dest,
                   kept, listCalls, dlCalls, upCalls, putCount, errs, rq, run1, fate, progress>>
    /\ SessionsStep

\* variant: when the download has returned, the upload phase is left out
DownloadReturn_SkipUpload ==
    /\ pc = "Download"
    /\ stack # <<>>
    /\ Top.st = "ret" \/ (Top.st = "loop" /\ Top.todo = {})
    /\ IF Len(stack) > 1
       THEN LET caller == stack[Len(stack) - 1]
            IN  /\ stack' = [SubSeq(stack, 1, Len(stack) - 1) EXCEPT ![Len(stack) - 1] =
                               [caller EXCEPT !.success_count = @ + Top.success_count,
                                              !.fail_count = @ + Top.fail_count]]
                /\ UNCHANGED <<pc, dlResult>>
       ELSE /\ stack' = <<>>
            /\ dlResult' = <<Top.success_count, Top.fail_count>>
            /\ pc' = "Cleanup"
    /\ UNCHANGED <<cfg, exitCode, uncaught, clients, staged, tempExists, tempCreated,
                   unreadable, upPhase, upFiles, upTodo, upCount, upResult, dest, kept,
                   listCalls, dlCalls, upCalls, putCount, errs, rq, run1, fate, progress>>
    /\ SessionsStep

\* lines 590 / 623: the innermost call returns its counts; the caller adds
\* them (lines 602-603), sync_artifacts records them (lines 886-896)
DownloadReturn ==
    /\ pc = "Download"
    /\ stack # <<>>
    /\ Top.st = "ret" \/ (Top.st = "loop" /\ Top.todo = {})
    /\ IF Len(stack) > 1
       THEN LET caller == stack[Len(stack) - 1]
            IN  /\ stack' = [SubSeq(stack, 1, Len(stack) - 1) EXCEPT ![Len(stack) - 1] =
                               [caller EXCEPT !.success_count = @ + Top.success_count,
                                              !.fail_count = @ + Top.fail_count]]
                /\ UNCHANGED <<pc, dlResult>>
       ELSE /\ stack' = <<>>
            /\ dlResult' = <<Top.success_count, Top.fail_count>>
            /\ pc' = "Upload"
    /\ UNCHANGED <<cfg, exitCode, uncaught, clients, staged, tempExists, tempCreated,
                   unreadable, upPhase, upFiles, upTodo, upCount, upResult, dest, kept,
                   listCalls, dlCalls, upCalls, putCount, errs, rq, run1, fate, progress>>
    /\ SessionsStep

----------------------------------------------------------------------------
(* upload_artifacts_recursively *)

\* str.replace('\\', '/')
ReplaceBackslash(str) == [i \in 1..Len(str) |-> IF str[i] = "\\" THEN "/" ELSE str[i]]

\* variant: dest_path is always joined, as '{dest_path}/{rel_path}'
ArtifactPath_AlwaysJoin(dest_path, local_file, local_dir) ==
    RStrip(dest_path) \o <<"/">> \o ReplaceBackslash(RelativeTo(local_file, local_dir))

\* lines 683-691: the artifact path of one staged file
ArtifactPath(dest_path, local_file, local_dir) ==
    LET stripped == RStrip(dest_path)
        rel_path_str == ReplaceBackslash(RelativeTo(local_file, local_dir))
    IN  IF stripped # <<>> THEN stripped \o <<"/">> \o rel_path_str ELSE rel_path_str

\* variant: the counters are not set to 0 at the start of a call
UploadStart_NoReset ==
    /\ pc = "Upload"
    /\ upPhase = "none"
    /\ upPhase' = "running"
    /\ upFiles' = DOMAIN staged
    /\ upTodo' = DOMAIN staged
    /\ upCount' = upCount
    /\ \E bad \in UnreadableSets(DOMAIN staged) : unreadable' = bad
    /\ UNCHANGED <<cfg, pc, exitCode, uncaught, clients, stack, dlResult, staged, tempExists,
                   tempCreated, upResult, dest, kept, listCalls, dlCalls, upCalls, putCount,
                   errs, rq, run1, fate, progress>>
    /\ SessionsStep

\* lines 660-678: the files under local_dir are collected.  The state of the
\* local disk at this point (which files cannot be read) is the environment's.
UploadStart ==
    /\ pc = "Upload"
    /\ upPhase = "none"
    /\ upPhase' = "running"
    /\ upFiles' = DOMAIN staged
    /\ upTodo' = DOMAIN staged
    /\ upCount' = <<0, 0>>
    /\ \E bad \in UnreadableSets(DOMAIN staged) : unreadable' = bad
    /\ UNCHANGED <<cfg, pc, exitCode, uncaught, clients, stack, dlResult, staged, tempExists,
                   tempCreated, upResult, dest, kept, listCalls, dlCalls, upCalls, putCount,
                   errs, rq, run1, fate, progress>>
    /\ SessionsStep

\* the overwrite argument: --overwrite is a flag with default=True
Overwrite == IF "overwrite" \in DOMAIN cfg THEN cfg.overwrite ELSE TRUE

\* variant: without overwrite a file whose target exists is not uploaded
ShouldUpload_SkipExisting(overwrite, exists) == overwrite \/ ~exists

\* lines 682-689: every file of files_list is handed to upload_file; the
\* overwrite argument is read nowhere in upload_artifacts_recursively
ShouldUpload(overwrite, exists) == TRUE

\* lines 682-704: one file of files_list
UploadFile ==
    /\ pc = "Upload"
    /\ upPhase = "running"
    /\ \E local_file \in upTodo : \E plan \in UploadPlans(local_file), consumed \in BOOLEAN :
         LET artifact_path == ArtifactPath(cfg.dest_path, local_file, TempDir)
             r == IF ShouldUpload(Overwrite, LStrip(artifact_path) \in DOMAIN dest)
                  THEN upload_file(cfg.use_jfrog_cli, cfg.dry_run, local_file \notin unreadable,
                                   plan, consumed)
                  ELSE [ret |-> "True", requests |-> 0, stored |-> FALSE, body |-> "none"]
         IN  /\ upCalls' = AddCall(upCalls, [artifact |-> artifact_path, local |-> local_file])
             /\ putCount' = putCount + r.requests
             /\ dest' = IF r.stored
                        THEN (LStrip(artifact_path) :>
                                [src |-> staged[local_file].src,
                                 complete |-> staged[local_file].complete,
                                 body |-> r.body]) @@ dest
                        ELSE dest
             /\ upTodo' = upTodo \ {local_file}
             /\ CASE r.ret = "True" ->
                       /\ upCount' = <<upCount[1] + 1, upCount[2]>>
                       /\ UNCHANGED <<pc, exitCode, uncaught, tempExists, staged, upPhase, errs>>
                  [] r.ret = "False" ->
                       /\ upCount' = <<upCount[1], upCount[2] + 1>>
                       /\ errs' = errs \cup {"up_fail"}
                       /\ UNCHANGED <<pc, exitCode, uncaught, tempExists, staged, upPhase>>
                  [] r.ret = "OSError" ->
                       \* not caught before line 933
                       /\ Leave(1, "none")
                       /\ upPhase' = "raised"
                       /\ errs' = errs \cup {"up_oserror"}
                       /\ UNCHANGED upCount
                  [] OTHER ->
                       /\ Leave(1, r.ret)
                       /\ upPhase' = "raised"
                       /\ errs' = errs \cup {"up_error"}
                       /\ UNCHANGED upCount
    /\ UNCHANGED <<cfg, clients, stack, dlResult, tempCreated, unreadable, upFiles, upResult,
                   kept, listCalls, dlCalls, rq, run1, fate, progress>>
    /\ SessionsStep

\* line 711 and lines 905-921: the counts are returned and reported
UploadReturn ==
    /\ pc = "Upload"
    /\ upPhase = "running"
    /\ upTodo = {}
    /\ upPhase' = "returned"
    /\ upResult' = upCount
    /\ pc' = IF cfg.keep_temp THEN "KeepTemp" ELSE "Cleanup"
    /\ UNCHANGED <<cfg, exitCode, uncaught, clients, stack, dlResult, staged, tempExists,
                   tempCreated, unreadable, upFiles, upTodo, upCount, dest, kept, listCalls,
                   dlCalls, upCalls, putCount, errs, rq, run1, fate, progress>>
    /\ SessionsStep

\* lines 924-927: shutil.copytree(temp_path, keep_dir)
KeepTemp ==
    /\ pc = "KeepTemp"
    /\ \E ok \in DiskOks :
         IF ok
         THEN /\ kept' = [copied |-> TRUE, files |-> staged]
              /\ pc' = "Cleanup"
              /\ UNCHANGED <<exitCode, uncaught, tempExists, staged, errs>>
         ELSE /\ Leave(1, "none")
              /\ errs' = errs \cup {"oserror"}
              /\ UNCHANGED kept
    /\ UNCHANGED <<cfg, clients, stack, dlResult, tempCreated, unreadable, upPhase, upFiles,
                   upTodo, upCount, upResult, dest, listCalls, dlCalls, upCalls, putCount, rq, run1, fate, progress>>
    /\ SessionsStep

\* variant: failed transfers turn into a failed run
Finish_FailOnTransferFailure ==
    /\ pc = "Cleanup"
    /\ tempExists' = FALSE
    /\ staged' = <<>>
    /\ pc' = IF dlResult[2] + upResult[2] > 0 THEN "Aborted" ELSE "Done"
    /\ exitCode' = IF dlResult[2] + upResult[2] > 0 THEN 1 ELSE 0
    /\ UNCHANGED <<cfg, uncaught, clients, stack, dlResult, tempCreated, unreadable, upPhase,
                   upFiles, upTodo, upCount, upResult, dest, kept, listCalls, dlCalls, upCalls,
                   putCount, errs, rq, run1, fate, progress>>
    /\ SessionsStep

\* lines 928-931: both with blocks are left, the run completes
Finish ==
    /\ pc = "Cleanup"
    /\ tempExists' = FALSE
    /\ staged' = <<>>
    /\ pc' = "Done"
    /\ exitCode' = 0
    /\ UNCHANGED <<cfg, uncaught, clients, stack, dlResult, tempCreated, unreadable, upPhase,
                   upFiles, upTodo, upCount, upResult, dest, kept, listCalls, dlCalls, upCalls,
                   putCount, errs, rq, run1, fate, progress>>
    /\ SessionsStep

\* lines 936-938: KeyboardInterrupt anywhere inside the try block
Interrupt ==
    /\ pc \in {"InitClients", "ValidateSource", "ValidateDest", "MkTemp", "Download", "Upload",
               "KeepTemp", "Cleanup"}
    /\ Leave(1, "none")
    /\ upPhase' = IF upPhase = "running" THEN "raised" ELSE upPhase
    /\ errs' = errs \cup {"interrupt"}
    /\ UNCHANGED <<cfg, clients, stack, dlResult, tempCreated, unreadable, upFiles, upTodo,
                   upCount, upResult, dest, kept, listCalls, dlCalls, upCalls, putCount, rq, run1, fate, progress>>
    /\ SessionsStep

Next ==
    \/ CheckCredentials
    \/ InitClients
    \/ ValidateSource
    \/ ValidateDest
    \/ MkTemp
    \/ DownloadList
    \/ DownloadFile
    \/ DownloadEnter
    \/ DownloadReturn
    \/ UploadStart
    \/ UploadFile
    \/ UploadReturn
    \/ KeepTemp
    \/ Finish
    \/ Interrupt

Spec == Init /\ [][Next]_vars

----------------------------------------------------------------------------
(* _retry_request on its own: every retry count, every outcome sequence *)

RetryInit ==
    /\ cfg = [use_jfrog_cli |-> FALSE, dry_run |-> FALSE, validate |-> FALSE,
              keep_temp |-> FALSE, source_path |-> <<>>, dest_path |-> <<>>, tree |-> {},
              server_deep |-> TRUE,
              source_username |-> <<"u">>, source_password |-> <<"u">>,
              dest_username |-> <<"u">>, dest_password |-> <<"u">>]
    /\ RunInit
    /\ fate = NoFate
    /\ \E n \in 0..MaxRetries, plan \in Plans(MaxRetries) :
         rq = [RqIdle EXCEPT !.retries = n, !.plan = plan]

\* one call self._retry_request(method, url) on a client built with rq.retries
RetryCall ==
    /\ rq.status = "idle"
    /\ LET r == _retry_request(rq.plan, rq.retries)
       IN  rq' = [rq EXCEPT !.status = r.status, !.exc = r.exc, !.last = r.last,
                            !.attempts = r.attempts, !.sleeps = r.sleeps]
    /\ UNCHANGED <<cfg, pc, exitCode, uncaught, clients, stack, dlResult, staged, tempExists,
                   tempCreated, unreadable, upPhase, upFiles, upTodo, upCount, upResult,
                   dest, kept, listCalls, dlCalls, upCalls, putCount, errs, run1, fate, progress>>
    /\ SessionsStep

RetryNext == RetryCall

RetrySpec == RetryInit /\ [][RetryNext]_vars

----------------------------------------------------------------------------
(* One call of download_file or upload_file on an ArtifactoryClient built
   with rq.retries (constructor argument, line 41) *)

ClientInit ==
    /\ \E dry \in BOOLEAN :
         cfg = [use_jfrog_cli |-> FALSE, dry_run |-> dry, validate |-> FALSE,
                keep_temp |-> FALSE, source_path |-> <<>>, dest_path |-> <<>>, tree |-> {},
                server_deep |-> TRUE,
                source_username |-> <<"u">>, source_password |-> <<"u">>,
                dest_username |-> <<"u">>, dest_password |-> <<"u">>]
    /\ RunInit
    /\ fate = NoFate
    /\ \E n \in 0..MaxRetries, plan \in Plans(MaxRetries) :
         rq = [RqIdle EXCEPT !.retries = n, !.plan = plan]

\* client.download_file(repo, artifact_path, local_path)
ClientDownload ==
    /\ rq.status = "idle"
    /\ \E env \in LocalOutcomes :
         LET r == rest_download_file(rq.retries, rq.plan, env)
         IN  dlCalls' = Append(dlCalls, [env |-> env, ret |-> r.ret, file |-> r.file,
                                         requests |-> r.requests])
    /\ rq' = [rq EXCEPT !.status = "called"]
    /\ UNCHANGED <<cfg, pc, exitCode, uncaught, clients, stack, dlResult, staged, tempExists,
                   tempCreated, unreadable, upPhase, upFiles, upTodo, upCount, upResult,
                   dest, kept, listCalls, upCalls, putCount, errs, run1, fate, progress>>
    /\ SessionsStep

\* client.upload_file(repo, artifact_path, local_path, dry_run)
ClientUpload ==
    /\ rq.status = "idle"
    /\ \E readable \in BOOLEAN, consumed \in BOOLEAN :
         LET r == rest_upload_file(rq.retries, cfg.dry_run, readable, rq.plan, consumed)
         IN  upCalls' = Append(upCalls, [readable |-> readable, dry_run |-> cfg.dry_run,
                                         ret |-> r.ret, requests |-> r.requests,
                                         stored |-> r.stored])
    /\ rq' = [rq EXCEPT !.status = "called"]
    /\ UNCHANGED <<cfg, pc, exitCode, uncaught, clients, stack, dlResult, staged, tempExists,
                   tempCreated, unreadable, upPhase, upFiles, upTodo, upCount, upResult,
                   dest, kept, listCalls, dlCalls, putCount, errs, run1, fate, progress>>
    /\ SessionsStep

ClientNext == ClientDownload \/ ClientUpload

ClientSpec == ClientInit /\ [][ClientNext]_vars

----------------------------------------------------------------------------
(* upload_artifacts_recursively called twice on the same directory *)

\* the temporary directory after every file of `tree` was downloaded whole
StagedAll(tree) ==
    [l \in {PathJoin(TempDir, n.path) : n \in {m \in tree : ~m.folder}} |->
        [src |-> RelativeTo(l, TempDir), complete |-> TRUE]]

TwiceInit ==
    /\ cfg \in {c \in Configs : /\ MissingCreds(c) = {}
                                /\ ~c.dry_run /\ ~c.validate /\ ~c.keep_temp
                                /\ ~c.server_deep /\ c.source_path = <<>>}
    /\ pc = "Upload"
    /\ exitCode = -1
    /\ uncaught = "none"
    /\ clients = TRUE
    /\ stack = <<>>
    /\ dlResult = <<Cardinality(DOMAIN StagedAll(cfg.tree)), 0>>
    /\ staged = StagedAll(cfg.tree)
    /\ tempExists = TRUE
    /\ tempCreated = TRUE
    /\ unreadable = {}
    /\ upPhase = "none"
    /\ upFiles = {}
    /\ upTodo = {}
    /\ upCount = <<0, 0>>
    /\ upResult = <<>>
    /\ dest = Dest0
    /\ kept = [copied |-> FALSE, files |-> <<>>]
    /\ progress = <<>>
    /\ sessions = ConstructClients(NoSessions)
    /\ listCalls = EmptyBag
    /\ dlCalls = EmptyBag
    /\ upCalls = EmptyBag
    /\ putCount = 0
    /\ errs = {}
    /\ rq = RqIdle
    /\ run1 = NoRun
    /\ fate = NoFate

\* the first call has returned: its result and the destination are noted
\* and upload_artifacts_recursively is called again with the same arguments
UploadAgain ==
    /\ upPhase = "returned"
    /\ ~run1.done
    /\ run1' = [NoRun EXCEPT !.done = TRUE, !.result = upResult, !.dest = dest]
    /\ upPhase' = "none"
    /\ upResult' = <<>>
    /\ pc' = "Upload"
    /\ UNCHANGED <<cfg, exitCode, uncaught, clients, stack, dlResult, staged, tempExists,
                   tempCreated, unreadable, upFiles, upTodo, upCount, dest, kept, listCalls,
                   dlCalls, upCalls, putCount, errs, rq, fate, progress>>
    /\ SessionsStep

TwiceNext ==
    \/ UploadStart
    \/ UploadFile
    \/ UploadReturn
    \/ UploadAgain

TwiceSpec == TwiceInit /\ [][TwiceNext]_vars

----------------------------------------------------------------------------
(* sync_artifacts on one given source tree and destination path *)

\* root = [folder lib -> [file a.jar], file readme.txt]
ScenarioTree ==
    {Folder(<<"lib">>), File(<<"lib", "/", "a.jar">>), File(<<"readme.txt">>)}

\* --dest-path releases/1.0
ScenarioDestPath == <<"releases", "/", "1.0">>

ScenarioInit ==
    /\ cfg \in [use_jfrog_cli : BOOLEAN, dry_run : BOOLEAN, validate : BOOLEAN,
                keep_temp : BOOLEAN, source_path : {<<>>}, dest_path : {ScenarioDestPath},
                tree : {ScenarioTree}, server_deep : BOOLEAN,
                source_username : {<<"u">>}, source_password : {<<"u">>},
                dest_username : {<<"u">>}, dest_password : {<<"u">>}]
    /\ RunInit
    /\ rq = RqIdle
    /\ fate = NoFate

ScenarioSpec == ScenarioInit /\ [][Next]_vars

----------------------------------------------------------------------------
(* Runs whose backend and disk outcomes are fixed per node in advance *)

FileFates == {"ok", "req_fail", "stream_fail", "os_open", "os_write"}
FolderFates == {"ok", "list_fail"}
UploadFates == {"ok", "req_fail", "unreadable"}

FilesOf(tree) == {m.path : m \in {n \in tree : ~n.folder}}

\* one outcome for the listing of the root and of every folder and for the
\* download of every file
NodeFates(tree) ==
    {n \in [{<<>>} \cup {m.path : m \in tree} -> FileFates \cup FolderFates] :
        \A k \in DOMAIN n : IF k \in FilesOf(tree) THEN n[k] \in FileFates
                            ELSE n[k] \in FolderFates}

Fates(tree, upload_fates) ==
    {[fixed |-> TRUE, node |-> n, up |-> u] :
        n \in NodeFates(tree), u \in [FilesOf(tree) -> upload_fates]}

\* trees with a file next to a folder and with nested folders
FatedTrees == {t \in Trees : Folder(<<"d">>) \in t /\ Folder(<<"e">>) \notin t}

FatedConfigs ==
    {c \in Configs : /\ MissingCreds(c) = {}
                     /\ ~c.dry_run /\ ~c.validate /\ ~c.keep_temp
                     /\ c.source_path = <<>> /\ c.dest_path = <<>>
                     /\ c.tree \in FatedTrees}

\* download_artifacts_recursively is about to be called on the new
\* temporary directory
AtDownload ==
    /\ pc = "Download"
    /\ exitCode = -1
    /\ uncaught = "none"
    /\ clients = TRUE
    /\ stack = <<NewFrame(cfg.source_path)>>
    /\ dlResult = <<>>
    /\ staged = <<>>
    /\ tempExists = TRUE
    /\ tempCreated = TRUE
    /\ unreadable = {}
    /\ upPhase = "none"
    /\ upFiles = {}
    /\ upTodo = {}
    /\ upCount = <<0, 0>>
    /\ upResult = <<>>
    /\ dest = Dest0
    /\ kept = [copied |-> FALSE, files |-> <<>>]
    /\ progress = <<>>
    /\ sessions = ConstructClients(NoSessions)
    /\ listCalls = EmptyBag
    /\ dlCalls = EmptyBag
    /\ upCalls = EmptyBag
    /\ putCount = 0
    /\ errs = {}
    /\ rq = RqIdle
    /\ run1 = NoRun

OrderInit ==
    /\ cfg \in FatedConfigs
    /\ fate \in Fates(cfg.tree, {"ok"})
    /\ AtDownload

\* the first call has returned or was left by an exception: its counts and
\* the staged files are noted and download_artifacts_recursively is called
\* again on an empty directory; the listings may now come in another order
DownloadAgain ==
    /\ ~run1.done
    /\ (pc = "Upload" /\ upPhase = "none") \/ pc = "Aborted"
    /\ run1' = [NoRun EXCEPT !.done = TRUE, !.dl = dlResult, !.staged = staged, !.pc = pc,
                             !.exitCode = exitCode]
    /\ pc' = "Download"
    /\ exitCode' = -1
    /\ uncaught' = "none"
    /\ stack' = <<NewFrame(cfg.source_path)>>
    /\ dlResult' = <<>>
    /\ staged' = <<>>
    /\ tempExists' = TRUE
    /\ listCalls' = EmptyBag
    /\ dlCalls' = EmptyBag
    /\ errs' = {}
    /\ UNCHANGED <<cfg, clients, tempCreated, unreadable, upPhase, upFiles, upTodo, upCount,
                   upResult, dest, kept, upCalls, putCount, rq, fate, progress>>
    /\ SessionsStep

OrderNext ==
    \/ DownloadList
    \/ DownloadFile
    \/ DownloadEnter
    \/ DownloadReturn
    \/ DownloadAgain

OrderSpec == OrderInit /\ [][OrderNext]_vars

----------------------------------------------------------------------------
(* sync_artifacts run with one client class, then with the other *)

BackendInit ==
    /\ cfg \in FatedConfigs
    /\ fate \in Fates(cfg.tree, UploadFates)
    /\ RunInit
    /\ rq = RqIdle

\* the run has ended: its counts, terminal state and exit code are noted
\* and sync_artifacts is run again on the same source and destination with
\* --use-jfrog-cli switched
SwitchBackend ==
    /\ ~run1.done
    /\ pc \in {"Done", "Aborted"}
    /\ run1' = [NoRun EXCEPT !.done = TRUE, !.dl = dlResult, !.result = upResult, !.pc = pc,
                             !.exitCode = exitCode, !.dest = dest]
    /\ cfg' = [cfg EXCEPT !.use_jfrog_cli = ~@]
    /\ pc' = "Start"
    /\ exitCode' = -1
    /\ uncaught' = "none"
    /\ clients' = FALSE
    /\ stack' = <<>>
    /\ dlResult' = <<>>
    /\ staged' = <<>>
    /\ tempExists' = FALSE
    /\ tempCreated' = FALSE
    /\ unreadable' = {}
    /\ upPhase' = "none"
    /\ upFiles' = {}
    /\ upTodo' = {}
    /\ upCount' = <<0, 0>>
    /\ upResult' = <<>>
    /\ dest' = Dest0
    /\ listCalls' = EmptyBag
    /\ dlCalls' = EmptyBag
    /\ upCalls' = EmptyBag
    /\ putCount' = 0
    /\ errs' = {}
    /\ UNCHANGED <<kept, rq, fate, progress>>
    /\ SessionsStep

BackendNext ==
    \/ CheckCredentials
    \/ InitClients
    \/ MkTemp
    \/ DownloadList
    \/ DownloadFile
    \/ DownloadEnter
    \/ DownloadReturn
    \/ UploadStart
    \/ UploadFile
    \/ UploadReturn
    \/ Finish
    \/ SwitchBackend

BackendSpec == BackendInit /\ [][BackendNext]_vars

----------------------------------------------------------------------------
(* upload_artifacts_recursively called with overwrite and without *)

OverwriteInit ==
    /\ \E c \in {k \in Configs : /\ MissingCreds(k) = {}
                                 /\ ~k.dry_run /\ ~k.validate /\ ~k.keep_temp
                                 /\ ~k.server_deep /\ k.source_path = <<>>
                                 /\ k.tree # {}},
          o \in BOOLEAN :
         cfg = [x \in DOMAIN c \cup {"overwrite"} |-> IF x = "overwrite" THEN o ELSE c[x]]
    /\ fate \in {f \in Fates(cfg.tree, {"ok", "req_fail"}) :
                   \A k \in DOMAIN f.node : f.node[k] = "ok"}
    /\ pc = "Upload"
    /\ exitCode = -1
    /\ uncaught = "none"
    /\ clients = TRUE
    /\ stack = <<>>
    /\ dlResult = <<Cardinality(DOMAIN StagedAll(cfg.tree)), 0>>
    /\ staged = StagedAll(cfg.tree)
    /\ tempExists = TRUE
    /\ tempCreated = TRUE
    /\ unreadable = {}
    /\ upPhase = "none"
    /\ upFiles = {}
    /\ upTodo = {}
    /\ upCount = <<0, 0>>
    /\ upResult = <<>>
    /\ dest = Dest0
    /\ kept = [copied |-> FALSE, files |-> <<>>]
    /\ progress = <<>>
    /\ sessions = ConstructClients(NoSessions)
    /\ listCalls = EmptyBag
    /\ dlCalls = EmptyBag
    /\ upCalls = EmptyBag
    /\ putCount = 0
    /\ errs = {}
    /\ rq = RqIdle
    /\ run1 = NoRun

\* the first call has returned: its calls, counts and the destination are
\* noted, and upload_artifacts_recursively is called on the same directory
\* and the same destination content with the other value of overwrite
UploadWithOtherFlag ==
    /\ upPhase = "returned"
    /\ ~run1.done
    /\ run1' = [NoRun EXCEPT !.done = TRUE, !.result = upResult, !.dest = dest,
                             !.calls = upCalls]
    /\ cfg' = [cfg EXCEPT !.overwrite = ~@]
    /\ upPhase' = "none"
    /\ upResult' = <<>>
    /\ pc' = "Upload"
    /\ dest' = Dest0
    /\ upCalls' = EmptyBag
    /\ putCount' = 0
    /\ errs' = {}
    /\ UNCHANGED <<exitCode, uncaught, clients, stack, dlResult, staged, tempExists,
                   tempCreated, unreadable, upFiles, upTodo, upCount, kept, listCalls,
                   dlCalls, rq, fate, progress>>
    /\ SessionsStep

OverwriteNext ==
    \/ UploadStart
    \/ UploadFile
    \/ UploadReturn
    \/ UploadWithOtherFlag

OverwriteSpec == OverwriteInit /\ [][OverwriteNext]_vars

----------------------------------------------------------------------------
(* sync_artifacts with well-formed and malformed base URLs *)

UrlInit ==
    /\ \E c \in {k \in Configs : /\ MissingCreds(k) = {}
                                 /\ ~k.dry_run /\ ~k.server_deep
                                 /\ k.source_path = <<>> /\ k.dest_path = <<>>
                                 /\ k.tree \in FatedTrees /\ File(<<"f">>) \in k.tree},
          su \in Urls, du \in Urls :
         /\ su = GoodUrl \/ du = GoodUrl
         /\ cfg = [x \in DOMAIN c \cup {"source_url", "dest_url"} |->
                     CASE x = "source_url" -> su
                       [] x = "dest_url" -> du
                       [] OTHER -> c[x]]
    /\ RunInit
    /\ rq = RqIdle
    /\ fate = NoFate

UrlSpec == UrlInit /\ [][Next]_vars

----------------------------------------------------------------------------
(* sync_artifacts left to run: the process takes its next step whenever it
   has one, and the user does not interrupt it *)

LiveInit ==
    /\ cfg \in {c \in Configs : /\ MissingCreds(c) = {}
                                /\ c.source_path = <<>> /\ c.dest_path = <<>>
                                /\ c.tree \in FatedTrees}
    /\ RunInit
    /\ rq = RqIdle
    /\ fate = NoFate

LiveNext ==
    \/ CheckCredentials
    \/ InitClients
    \/ ValidateSource
    \/ ValidateDest
    \/ MkTemp
    \/ DownloadList
    \/ DownloadFile
    \/ DownloadEnter
    \/ DownloadReturn
    \/ UploadStart
    \/ UploadFile
    \/ UploadReturn
    \/ KeepTemp
    \/ Finish

\* every call returns or raises (requests have a timeout, commands too), so
\* a step that is possible is eventually taken
FairSpec == LiveInit /\ [][LiveNext]_vars /\ WF_vars(LiveNext)

----------------------------------------------------------------------------
(* src/scripts/artifactory_sync.py: the script variant without retries,
   without failure counts and without the JFrog client *)

\* ArtifactoryClient.__init__ of the script: nothing is validated
LegacyInitClients ==
    /\ pc = "InitClients"
    /\ clients' = TRUE
    /\ pc' = "MkTemp"
    /\ sessions' = NewSession(NewSession(sessions, "source"), "dest")
    /\ UNCHANGED <<cfg, exitCode, uncaught, stack, dlResult, staged, tempExists, tempCreated,
                   unreadable, upPhase, upFiles, upTodo, upCount, upResult, dest, kept,
                   listCalls, dlCalls, upCalls, putCount, errs, rq, run1, fate, progress>>

\* variant: a listing error ends only the call that met it
LegacyDownloadList_Swallow ==
    /\ pc = "Download"
    /\ stack # <<>>
    /\ Top.st = "list"
    /\ \E ok \in BOOLEAN :
         /\ listCalls' = AddCall(listCalls, [side |-> "Download", path |-> Top.path])
         /\ IF ok /\ PathExists(cfg.tree, LStrip(Top.path))
            THEN /\ stack' = SetTop([Top EXCEPT !.st = "loop",
                                                !.todo = ServerList(cfg.tree, LStrip(Top.path),
                                                                    cfg.server_deep, TRUE)])
                 /\ UNCHANGED <<pc, exitCode, uncaught, tempExists, staged, errs>>
            ELSE /\ stack' = SetTop([Top EXCEPT !.st = "ret"])
                 /\ errs' = errs \cup ListFailure
                 /\ UNCHANGED <<pc, exitCode, uncaught, tempExists, staged>>
    /\ UNCHANGED <<cfg, clients, dlResult, tempCreated, unreadable, upPhase, upFiles, upTodo,
                   upCount, upResult, dest, kept, dlCalls, upCalls, putCount, rq, run1, fate,
                   progress>>
    /\ SessionsStep

\* script lines 198 and 69-80: one GET with deep=1 and listFolders=1, no
\* retry.  RequestException is re-raised by list_artifacts, by every
\* active call of download_artifacts_recursively (lines 224-226) and ends
\* sync_artifacts at lines 447-449.
LegacyDownloadList ==
    /\ pc = "Download"
    /\ stack # <<>>
    /\ Top.st = "list"
    /\ \E ok \in BOOLEAN :
         /\ listCalls' = AddCall(listCalls, [side |-> "Download", path |-> Top.path])
         /\ IF ok /\ PathExists(cfg.tree, LStrip(Top.path))
            THEN /\ stack' = SetTop([Top EXCEPT !.st = "loop",
                                                !.todo = ServerList(cfg.tree, LStrip(Top.path),
                                                                    cfg.server_deep, TRUE)])
                 /\ UNCHANGED <<pc, exitCode, uncaught, tempExists, staged, errs>>
            ELSE /\ Leave(1, "none")
                 /\ stack' = <<>>
                 /\ errs' = errs \cup ListFailure
    /\ UNCHANGED <<cfg, clients, dlResult, tempCreated, unreadable, upPhase, upFiles, upTodo,
                   upCount, upResult, dest, kept, dlCalls, upCalls, putCount, rq, run1, fate,
                   progress>>
    /\ SessionsStep

\* script download_file (lines 96-127): one GET; RequestException gives
\* False, an OSError of mkdir/open/write escapes
legacy_download_file(out) ==
    CASE out = "ok"          -> [ret |-> "True",    file |-> "full"]
      [] out = "req_fail"    -> [ret |-> "False",   file |-> "keep"]
      [] out = "stream_fail" -> [ret |-> "False",   file |-> "partial"]
      [] out = "os_open"     -> [ret |-> "OSError", file |-> "keep"]
      [] OTHER               -> [ret |-> "OSError", file |-> "partial"]

\* script lines 211-221: one file entry; only True is counted, any
\* exception is re-raised through every call
LegacyDownloadFile ==
    /\ pc = "Download"
    /\ stack # <<>>
    /\ Top.st = "loop"
    /\ \E artifact \in Top.todo, out \in FileFates :
         /\ ~artifact.folder
         /\ LET artifact_path == LStrip(artifact.uri)
                local_file == PathJoin(TempDir, artifact_path)
                r == legacy_download_file(out)
                rest == Top.todo \ {artifact}
            IN  /\ dlCalls' = AddCall(dlCalls, [artifact |-> artifact_path, local |-> local_file,
                                                ret |-> r.ret, file |-> r.file])
                /\ CASE r.ret = "True" ->
                          /\ stack' = SetTop([Top EXCEPT !.todo = rest,
                                                          !.success_count = @ + 1])
                          /\ staged' = Written(staged, r.file, artifact_path, local_file)
                          /\ UNCHANGED <<pc, exitCode, uncaught, tempExists, errs>>
                     [] r.ret = "False" ->
                          /\ stack' = SetTop([Top EXCEPT !.todo = rest])
                          /\ staged' = Written(staged, r.file, artifact_path, local_file)
                          /\ errs' = errs \cup {"dl_fail"}
                          /\ UNCHANGED <<pc, exitCode, uncaught, tempExists>>
                     [] OTHER ->
                          /\ Leave(1, "none")
                          /\ stack' = <<>>
                          /\ errs' = errs \cup {"dl_oserror"}
    /\ UNCHANGED <<cfg, clients, dlResult, tempCreated, unreadable, upPhase, upFiles, upTodo,
                   upCount, upResult, dest, kept, listCalls, upCalls, putCount, rq, run1, fate,
                   progress>>
    /\ SessionsStep

\* script lines 205-210 and 231: a call returns its count to its caller, the
\* first call to sync_artifacts (lines 410-417)
LegacyDownloadReturn ==
    /\ pc = "Download"
    /\ stack # <<>>
    /\ Top.st = "loop"
    /\ Top.todo = {}
    /\ IF Len(stack) > 1
       THEN LET caller == stack[Len(stack) - 1]
            IN  /\ stack' = [SubSeq(stack, 1, Len(stack) - 1) EXCEPT ![Len(stack) - 1] =
                               [caller EXCEPT !.success_count = @ + Top.success_count]]
                /\ UNCHANGED <<pc, dlResult>>
       ELSE /\ stack' = <<>>
            /\ dlResult' = <<Top.success_count>>
            /\ pc' = "Upload"
    /\ UNCHANGED <<cfg, exitCode, uncaught, clients, staged, tempExists, tempCreated,
                   unreadable, upPhase, upFiles, upTodo, upCount, upResult, dest, kept,
                   listCalls, dlCalls, upCalls, putCount, errs, rq, run1, fate, progress>>
    /\ SessionsStep

\* the directories between local_dir and the files under it
DirsOf(files) ==
    UNION {{SubSeq(l, 1, k) : k \in {j \in (Len(TempDir) + 2)..(Len(l) - 2) : l[j + 1] = "/"}} :
              l \in files}

\* script lines 259-260: files_list = local_dir.rglob('*'), directories
\* included; total_files counts the regular files among them
LegacyUploadStart ==
    /\ pc = "Upload"
    /\ upPhase = "none"
    /\ upPhase' = "running"
    /\ upFiles' = DOMAIN staged \cup DirsOf(DOMAIN staged)
    /\ upTodo' = DOMAIN staged \cup DirsOf(DOMAIN staged)
    /\ upCount' = <<0, 0>>
    /\ \E bad \in UnreadableSets(DOMAIN staged) : unreadable' = bad
    /\ UNCHANGED <<cfg, pc, exitCode, uncaught, clients, stack, dlResult, staged, tempExists,
                   tempCreated, upResult, dest, kept, listCalls, dlCalls, upCalls, putCount,
                   errs, rq, run1, fate, progress>>
    /\ SessionsStep

\* script upload_file (lines 141-168): one PUT; RequestException gives
\* False, an OSError of stat/open escapes
legacy_upload_file(dry_run, readable, ok) ==
    IF ~readable THEN [ret |-> "OSError", requests |-> 0, stored |-> FALSE]
    ELSE IF dry_run THEN [ret |-> "True", requests |-> 0, stored |-> FALSE]
    ELSE IF ok THEN [ret |-> "True", requests |-> 1, stored |-> TRUE]
    ELSE [ret |-> "False", requests |-> 1, stored |-> FALSE]

\* script line 268: f'{dest_path}/{rel_path}'.replace('\\', '/')
LegacyArtifactPath(dest_path, local_file, local_dir) ==
    ReplaceBackslash(RStrip(dest_path) \o <<"/">> \o RelativeTo(local_file, local_dir))

\* script lines 265-277: one entry of enumerate(local_dir.rglob('*'), 1).
\* rglob yields the entries of a directory before those of its
\* subdirectories; idx counts every entry, the [idx/total_files] line
\* (printed with --verbose) and the upload are for regular files only.
LegacyUploadEntry ==
    /\ pc = "Upload"
    /\ upPhase = "running"
    /\ \E local_file \in upTodo, ok \in BOOLEAN :
         /\ \A other \in upTodo : Len(other) >= Len(local_file)
         /\ upTodo' = upTodo \ {local_file}
         /\ IF local_file \notin DOMAIN staged
            THEN UNCHANGED <<pc, exitCode, uncaught, tempExists, staged, upPhase, upCount, dest,
                             upCalls, putCount, errs, progress>>
            ELSE LET idx == Cardinality(upFiles \ upTodo) + 1
                     total_files == Cardinality(upFiles \cap DOMAIN staged)
                     artifact_path == LegacyArtifactPath(cfg.dest_path, local_file, TempDir)
                     r == legacy_upload_file(cfg.dry_run, local_file \notin unreadable, ok)
                 IN  /\ progress' = Append(progress, [idx |-> idx, total |-> total_files])
                     /\ upCalls' = AddCall(upCalls, [artifact |-> artifact_path,
                                                     local |-> local_file])
                     /\ putCount' = putCount + r.requests
                     /\ dest' = IF r.stored
                                THEN (LStrip(artifact_path) :>
                                        [src |-> staged[local_file].src,
                                         complete |-> staged[local_file].complete,
                                         body |-> "whole"]) @@ dest
                                ELSE dest
                     /\ CASE r.ret = "True" ->
                               /\ upCount' = <<upCount[1] + 1, upCount[2]>>
                               /\ UNCHANGED <<pc, exitCode, uncaught, tempExists, staged, upPhase,
                                              errs>>
                          [] r.ret = "False" ->
                               /\ errs' = errs \cup {"up_fail"}
                               /\ UNCHANGED <<pc, exitCode, uncaught, tempExists, staged, upPhase,
                                              upCount>>
                          [] OTHER ->
                               /\ Leave(1, "none")
                               /\ upPhase' = "raised"
                               /\ errs' = errs \cup {"up_oserror"}
                               /\ UNCHANGED upCount
    /\ UNCHANGED <<cfg, clients, stack, dlResult, tempCreated, unreadable, upFiles, upResult,
                   kept, listCalls, dlCalls, rq, run1, fate>>
    /\ SessionsStep

\* script lines 279-283 and 425-437: the count is returned and reported
LegacyUploadReturn ==
    /\ pc = "Upload"
    /\ upPhase = "running"
    /\ upTodo = {}
    /\ upPhase' = "returned"
    /\ upResult' = <<upCount[1]>>
    /\ pc' = IF cfg.keep_temp THEN "KeepTemp" ELSE "Cleanup"
    /\ UNCHANGED <<cfg, exitCode, uncaught, clients, stack, dlResult, staged, tempExists,
                   tempCreated, unreadable, upFiles, upTodo, upCount, dest, kept, listCalls,
                   dlCalls, upCalls, putCount, errs, rq, run1, fate, progress>>
    /\ SessionsStep

LegacyInit ==
    /\ cfg \in {c \in Configs : /\ MissingCreds(c) = {}
                                /\ ~c.use_jfrog_cli /\ ~c.validate
                                /\ c.source_path = <<>>
                                /\ c.dest_path # <<>>}
    /\ RunInit
    /\ rq = RqIdle
    /\ fate = NoFate

LegacyNext ==
    \/ CheckCredentials
    \/ LegacyInitClients
    \/ MkTemp
    \/ LegacyDownloadList
    \/ LegacyDownloadFile
    \/ DownloadEnter
    \/ LegacyDownloadReturn
    \/ LegacyUploadStart
    \/ LegacyUploadEntry
    \/ LegacyUploadReturn
    \/ KeepTemp
    \/ Finish

LegacySpec == LegacyInit /\ [][LegacyNext]_vars

----------------------------------------------------------------------------
Terminated == pc \in {"Done", "Aborted"}

TypeOK ==
    /\ pc \in {"Start", "InitClients", "ValidateSource", "ValidateDest", "MkTemp", "Download",
               "Upload", "KeepTemp", "Cleanup", "Done", "Aborted"}
    /\ exitCode \in {-1, 0, 1}
    /\ (exitCode = -1) = ~Terminated

----------------------------------------------------------------------------
(* Properties *)

RECURSIVE SumOver(_, _)
\* number of occurrences in `bag` of the elements of S
SumOver(S, bag) ==
    IF S = {} THEN 0
    ELSE LET c == CHOOSE x \in S : TRUE
         IN  CopiesIn(c, bag) + SumOver(S \ {c}, bag)

\* number of download_file calls for artifact path p
DownloadCallsOf(p) == SumOver({c \in BagToSet(dlCalls) : c.artifact = p}, dlCalls)

\* number of download_file calls that returned ret
DownloadCallsReturning(ret) == SumOver({c \in BagToSet(dlCalls) : c.ret = ret}, dlCalls)

\* number of upload_file calls for the staged file l
UploadCallsOf(l) == SumOver({c \in BagToSet(upCalls) : c.local = l}, upCalls)

\* C1: when download_artifacts_recursively returns and no listing failed and
\* no OSError occurred, success + fail equals the number of file nodes
\* reachable from the source path, and every such file was passed to
\* download_file exactly once.
C1_CountsEqualReachableFiles ==
    (dlResult # <<>> /\ errs \cap {"list_fail", "dl_oserror"} = {}) =>
        LET files == ReachableFiles(cfg.tree, LStrip(cfg.source_path))
        IN  /\ dlResult[1] + dlResult[2] = Cardinality(files)
            /\ \A p \in files : DownloadCallsOf(p) = 1

\* C2: a listing failure during the download phase abandons only its own
\* branch, with either client: the run is not ended by it before the upload
\* phase has started, and the counts returned hold every download that
\* succeeded.
C2_ListingFailureIsolated ==
    ("sub_list_fail" \in errs /\ "interrupt" \notin errs) =>
        /\ Terminated => upPhase # "none"
        /\ dlResult # <<>> => dlResult[1] = DownloadCallsReturning("True")

\* C3: with retries = 3, a request that fails on attempts 0 and 1 and
\* succeeds on attempt 2 returns, after exactly three attempts and exactly
\* the two sleeps 1, 2.
C3_TwoFailuresThenSuccess ==
    (/\ rq.status # "idle"
     /\ rq.retries = 3
     /\ ~rq.plan[1] /\ ~rq.plan[2] /\ rq.plan[3]) =>
        /\ rq.status = "returned"
        /\ rq.attempts = 3
        /\ rq.sleeps = <<1, 2>>

C3_Witness ==
    /\ rq.status = "returned"
    /\ rq.retries = 3
    /\ ~rq.plan[1] /\ ~rq.plan[2] /\ rq.plan[3]

WithoutTrailingSlashes(d) ==
    LET k == CHOOSE k \in 0..Len(d) : /\ k = 0 \/ d[k] # "/"
                                      /\ \A i \in (k + 1)..Len(d) : d[i] = "/"
    IN  SubSeq(d, 1, k)

\* C5: every file node with path p is staged at TempDir/p, and the staged
\* file with relative path r is uploaded as destPath/r, or as r when the
\* destination path (trailing slashes stripped) is empty.
C5_PathFidelity ==
    /\ \A c \in BagToSet(dlCalls) :
         /\ File(c.artifact) \in cfg.tree
         /\ c.local = TempDir \o <<"/">> \o c.artifact
    /\ \A l \in DOMAIN staged :
         /\ File(staged[l].src) \in cfg.tree
         /\ l = TempDir \o <<"/">> \o staged[l].src
    /\ \A c \in BagToSet(upCalls) :
         \E n \in cfg.tree :
            /\ ~n.folder
            /\ c.local = TempDir \o <<"/">> \o n.path
            /\ LET d == WithoutTrailingSlashes(cfg.dest_path)
               IN  c.artifact = IF d = <<>> THEN n.path ELSE d \o <<"/">> \o n.path

C5_Witness ==
    /\ cfg.dest_path = <<"x", "/">>
    /\ \E c \in BagToSet(upCalls) :
         /\ c.local = <<"/", "tmp", "/", "d", "/", "g">>
         /\ c.artifact = <<"x", "/", "d", "/", "g">>

\* C6: unless the user interrupts, the upload phase ends by returning, every
\* file found under the temporary directory was passed to upload_file
\* exactly once, and success + fail is the number of those files.
C6_UploadCountsEveryFile ==
    (upPhase \in {"returned", "raised"} /\ "interrupt" \notin errs) =>
        /\ upPhase = "returned"
        /\ upResult[1] + upResult[2] = Cardinality(upFiles)
        /\ \A l \in upFiles : UploadCallsOf(l) = 1

\* a step of the run itself (everything but the user's interrupt)
RunStep ==
    \/ CheckCredentials \/ InitClients \/ ValidateSource \/ ValidateDest \/ MkTemp
    \/ DownloadList \/ DownloadFile \/ DownloadEnter \/ DownloadReturn
    \/ UploadStart \/ UploadFile \/ UploadReturn \/ KeepTemp \/ Finish

\* C7: as long as nothing but single file transfers failed, the run is never
\* aborted: it can always take its next step, and it ends only in Done with
\* exit code 0, after both phases have returned their counts.
C7_TransferFailuresNeverAbort ==
    (errs \subseteq {"dl_fail", "up_fail"}) =>
        IF Terminated
        THEN /\ pc = "Done"
             /\ exitCode = 0
             /\ dlResult # <<>>
             /\ upPhase = "returned"
        ELSE ENABLED RunStep

C7_Witness ==
    /\ pc = "Done"
    /\ errs = {"dl_fail", "up_fail"}
    /\ dlResult[2] > 0
    /\ upResult[2] > 0

\* C8: once a validation listing has failed, the run is aborted with exit
\* code 1 and nothing was or is written or transferred.
C8_ValidationFailureAborts ==
    "validate_fail" \in errs =>
        /\ pc = "Aborted"
        /\ exitCode = 1
        /\ ~tempCreated /\ ~tempExists
        /\ staged = <<>>
        /\ dlCalls = EmptyBag
        /\ upCalls = EmptyBag
        /\ putCount = 0
        /\ dest = Dest0

C8_Witness ==
    /\ "validate_fail" \in errs
    /\ pc = "Aborted"
    /\ CopiesIn([side |-> "ValidateDest", path |-> <<>>], listCalls) = 1

\* one of the four credentials is missing or empty
CredentialMissing ==
    \E v \in {cfg.source_username, cfg.source_password, cfg.dest_username, cfg.dest_password} :
        v = None \/ Len(v) = 0

\* C9: with a missing or empty credential the run ends with exit code 1
\* before a client is constructed, before any list, download or upload and
\* before the temporary directory is created.
C9_MissingCredentialsAbortFirst ==
    CredentialMissing =>
        /\ pc \in {"Start", "Aborted"}
        /\ pc = "Aborted" => exitCode = 1
        /\ ~clients
        /\ ~tempCreated
        /\ listCalls = EmptyBag /\ dlCalls = EmptyBag /\ upCalls = EmptyBag
        /\ putCount = 0

C9_Witness ==
    /\ pc = "Aborted"
    /\ exitCode = 1
    /\ cfg.source_username = <<"u">> /\ cfg.source_password = <<"u">>
    /\ cfg.dest_username = <<"u">> /\ cfg.dest_password = <<>>

\* C10: when the process has exited and the temporary directory had been
\* created, the directory is gone, on every exit path.
C10_TempDirAlwaysRemoved ==
    (Terminated /\ tempCreated) => (~tempExists /\ staged = <<>>)

C10_Witness ==
    /\ pc = "Aborted"
    /\ tempCreated
    /\ "interrupt" \in errs
    /\ upPhase = "raised"
    /\ ~tempExists

\* C11: with --keep-temp, whenever the process has exited after the
\* temporary directory was created, the directory was copied to the keep
\* location.
C11_KeepTempOnEveryExit ==
    (Terminated /\ tempCreated /\ cfg.keep_temp) => kept.copied

\* every upload request sent so far succeeded: no upload_file call failed
\* and each call sent exactly one request
EveryUploadSucceeded ==
    /\ errs = {}
    /\ putCount = BagCardinality(upCalls)

UploadedArtifacts == {c.artifact : c \in BagToSet(upCalls)}

\* C13: on the tree root = [folder lib -> [file a.jar], file readme.txt]
\* with an empty source path and destination path releases/1.0, a run
\* without any failure stages exactly lib/a.jar and readme.txt, uploads
\* exactly releases/1.0/lib/a.jar and releases/1.0/readme.txt, and both
\* phases report (2, 0).
C13_ScenarioCounts ==
    (upPhase = "returned" /\ tempExists /\ errs = {}) =>
        /\ DOMAIN staged = {PathJoin(TempDir, <<"lib", "/", "a.jar">>),
                            PathJoin(TempDir, <<"readme.txt">>)}
        /\ UploadedArtifacts = {PathJoin(ScenarioDestPath, <<"lib", "/", "a.jar">>),
                                PathJoin(ScenarioDestPath, <<"readme.txt">>)}
        /\ dlResult = <<2, 0>>
        /\ upResult = <<2, 0>>

RECURSIVE CountsSoFar(_)
\* success and failure counts held by the calls of
\* download_artifacts_recursively that are on the stack
CountsSoFar(frames) ==
    IF frames = <<>> THEN <<0, 0>>
    ELSE LET rest == CountsSoFar(Tail(frames))
         IN  <<Head(frames).success_count + rest[1], Head(frames).fail_count + rest[2]>>

\* C14: after the user has interrupted the run, no transfer can be issued,
\* the process has exited with a non-zero code, and the counts of the phase
\* that was interrupted (download or upload) have been reported.
C14_CancellationReportsCounts ==
    "interrupt" \in errs =>
        /\ pc = "Aborted"
        /\ exitCode # 0
        /\ ~ENABLED DownloadFile
        /\ ~ENABLED UploadFile
        /\ (stack # <<>> => dlResult = CountsSoFar(stack))
        /\ (upPhase = "raised" => upResult = upCount)

\* position of a program point in the order Init (0), Validate (1),
\* Download (2), Upload (3), Preserve-Staging (4), Done (5); Aborted is 6
PhaseRank(p) ==
    CASE p \in {"Start", "InitClients"}            -> 0
      [] p \in {"ValidateSource", "ValidateDest"}  -> 1
      [] p \in {"MkTemp", "Download"}              -> 2
      [] p = "Upload"                              -> 3
      [] p = "KeepTemp"                            -> 4
      [] p \in {"Cleanup", "Done"}                 -> 5
      [] OTHER                                     -> 6

\* number of network operations issued so far
CallsIssued == BagCardinality(listCalls) + BagCardinality(dlCalls) + BagCardinality(upCalls)

PhaseStep ==
    /\ pc \in {"Done", "Aborted"} => pc' = pc
    /\ pc' # "Aborted" =>
         /\ PhaseRank(pc') >= PhaseRank(pc)
         /\ PhaseRank(pc) < 2 => PhaseRank(pc') <= 2
         /\ PhaseRank(pc) = 2 => PhaseRank(pc') <= 3
         /\ (PhaseRank(pc) = 0 /\ PhaseRank(pc') = 1) => cfg.validate
         /\ (PhaseRank(pc) = 0 /\ PhaseRank(pc') = 2) => ~cfg.validate
         /\ (PhaseRank(pc) = 3 /\ PhaseRank(pc') = 4) => cfg.keep_temp
         /\ (PhaseRank(pc) = 3 /\ PhaseRank(pc') = 5) => ~cfg.keep_temp
    /\ CallsIssued' <= CallsIssued + 1
    /\ upCalls' # EmptyBag => dlResult' # <<>>

\* C15: every step of a run keeps the phase order Init, (Validate),
\* Download, Upload, (Preserve-Staging), Done or ends in Aborted, with
\* Validate and Preserve-Staging entered exactly when requested; a step
\* issues at most one network operation, and upload_file is never called
\* before the download phase has returned its counts.
C15_PhaseOrder == [][PhaseStep]_vars

C15_Witness ==
    /\ pc = "Done"
    /\ cfg.validate
    /\ cfg.keep_temp
    /\ kept.copied
    /\ dlCalls # EmptyBag
    /\ upCalls # EmptyBag

RECURSIVE SeqSum(_)
SeqSum(q) == IF q = <<>> THEN 0 ELSE Head(q) + SeqSum(Tail(q))

\* sum(2^i for i in 0..n-1)
BackoffBound(n) == SeqSum([i \in 1..n |-> Pow2(i - 1)])

\* C16: for retries >= 1 and every outcome sequence, _retry_request sends
\* at most `retries` requests and stops at the first success; it sleeps
\* 2^attempt after failed attempt number `attempt` exactly when another
\* attempt follows, so the total sleep is at most sum(2^i, i < retries);
\* when every attempt fails it raises the exception of the last attempt.
C16_RetryBounds ==
    (rq.status # "idle" /\ rq.retries >= 1) =>
        /\ rq.attempts \in 1..rq.retries
        /\ \A i \in 1..(rq.attempts - 1) : ~rq.plan[i]
        /\ (rq.status = "returned") = rq.plan[rq.attempts]
        /\ Len(rq.sleeps) = (IF rq.status = "returned" THEN rq.attempts ELSE rq.retries) - 1
        /\ \A i \in 1..Len(rq.sleeps) : rq.sleeps[i] = Pow2(i - 1)
        /\ SeqSum(rq.sleeps) <= BackoffBound(rq.retries)
        /\ rq.status = "raised" =>
             /\ rq.attempts = rq.retries
             /\ rq.exc = "RequestException"
             /\ rq.last = rq.retries - 1

C16_Witness ==
    /\ rq.status = "raised"
    /\ rq.retries = 3
    /\ rq.attempts = 3
    /\ rq.sleeps = <<1, 2>>
    /\ rq.last = 2

\* C17: no download_file or upload_file call raises; every call that did
\* not succeed is in the failure count of its phase; and the files that
\* follow a failed one are still attempted: a returned download phase has
\* attempted every reachable file (unless a listing failed), the upload
\* phase is left by an exception only when the user interrupts, and a
\* returned upload phase has attempted every staged file.
C17_TransferFailureRecoveredLocally ==
    /\ \A c \in BagToSet(dlCalls) : c.ret \in {"True", "False"}
    /\ errs \cap {"dl_oserror", "up_oserror", "up_error"} = {}
    /\ dlResult # <<>> =>
         /\ dlResult[1] + dlResult[2] = BagCardinality(dlCalls)
         /\ "list_fail" \notin errs =>
              \A f \in ReachableFiles(cfg.tree, LStrip(cfg.source_path)) : DownloadCallsOf(f) >= 1
    /\ upPhase = "raised" => "interrupt" \in errs
    /\ upPhase = "returned" =>
         /\ upResult[1] + upResult[2] = BagCardinality(upCalls)
         /\ \A l \in upFiles : UploadCallsOf(l) >= 1

\* a staged file that cannot be read was handed to upload_file
UploadHitUnreadable == \E c \in BagToSet(upCalls) : c.local \in unreadable

\* C18: once an OSError was raised in the download phase the run is
\* aborted with a non-zero exit code and the upload phase was never
\* started; once an OSError was raised in the upload phase the run is
\* aborted with a non-zero exit code and nothing after the upload was done.
C18_ResourceErrorIsFatal ==
    /\ "dl_oserror" \in errs =>
         /\ pc = "Aborted"
         /\ exitCode # 0
         /\ upPhase = "none"
    /\ UploadHitUnreadable =>
         /\ pc = "Aborted"
         /\ exitCode # 0
         /\ ~kept.copied

\* C19: a download_file call returns True only if it wrote the whole
\* object; a call whose response body broke off after the local file was
\* opened returned False; and the success and failure counts are the
\* numbers of calls that returned True and False, while the download runs
\* and when it has returned.
C19_PartialDownloadIsFailure ==
    /\ \A c \in BagToSet(dlCalls) :
         /\ c.ret = "True" => c.file = "full"
         /\ (c.file = "partial" /\ c.ret # "OSError") => c.ret = "False"
    /\ stack # <<>> =>
         CountsSoFar(stack) = <<DownloadCallsReturning("True"), DownloadCallsReturning("False")>>
    /\ dlResult # <<>> =>
         dlResult = <<DownloadCallsReturning("True"), DownloadCallsReturning("False")>>

C19_Witness ==
    /\ \E c \in BagToSet(dlCalls) : c.file = "partial" /\ c.ret = "False"
    /\ dlResult = <<0, 1>>
    /\ \E l \in DOMAIN staged : ~staged[l].complete

\* local paths of the download_file calls that returned True
DownloadedOk == {c.local : c \in {d \in BagToSet(dlCalls) : d.ret = "True"}}

\* C20: the files the upload phase finds under the temporary directory are
\* exactly the files whose download was counted as a success, so the
\* upload counts add up to the download success count, and no incomplete
\* file is ever stored in the destination.
C20_UploadsOnlyDownloadedFiles ==
    /\ upPhase # "none" =>
         /\ upFiles = DownloadedOk
         /\ Cardinality(upFiles) = dlResult[1]
    /\ upPhase = "returned" => upResult[1] + upResult[2] = dlResult[1]
    /\ \A a \in DOMAIN dest : dest[a].complete

\* C21: with the outcome of every listing and download fixed per node,
\* two calls of download_artifacts_recursively whose listings come in any
\* two orders end the same way, return the same counts and leave the same
\* staged files.
C21_ListingOrderIrrelevant ==
    (run1.done /\ pc \in {"Upload", "Aborted"}) =>
        /\ pc = run1.pc
        /\ dlResult = run1.dl
        /\ staged = run1.staged

\* C22: for the same source tree and the same outcome of every listing,
\* download, upload and local file operation, the run with
\* ArtifactoryClient and the run with JFrogCLIClient report the same
\* download counts and upload counts and end in the same terminal state
\* with the same exit code.
C22_BackendsEquivalent ==
    (run1.done /\ Terminated) =>
        /\ dlResult = run1.dl
        /\ upResult = run1.result
        /\ pc = run1.pc
        /\ exitCode = run1.exitCode

\* C23: every file that a non-dry-run upload stored in the destination was
\* sent whole: the body of the request that succeeded was the whole content
\* of the local file, also when that request was a retry.
C23_UploadSendsWholeFile ==
    \A a \in DOMAIN dest : dest[a].body = "whole"

C25_BadUrlIsFatalPrecondition ==
    ~(_validate_url(SourceUrl) /\ _validate_url(DestUrl)) =>
        /\ listCalls = EmptyBag
        /\ dlCalls = EmptyBag
        /\ upCalls = EmptyBag
        /\ ~tempCreated
        /\ pc \in {"Start", "InitClients", "Aborted"}
        /\ Terminated => exitCode # 0

\* number of folder levels of the tree
FolderDepth(tree) ==
    LET levels == {(Len(m.path) + 1) \div 2 : m \in {n \in tree : n.folder}}
    IN  IF levels = {} THEN 0 ELSE CHOOSE d \in levels : \A e \in levels : e <= d

\* nested calls of download_artifacts_recursively below the first one
RecursionDepth == IF stack = <<>> THEN 0 ELSE Len(stack) - 1

RecursionBounded == RecursionDepth <= FolderDepth(cfg.tree)

FoldersListedOnce ==
    \A c \in BagToSet(listCalls) : c.side = "Download" => CopiesIn(c, listCalls) <= 1

\* C26: every run eventually reaches Done or Aborted, and throughout the
\* run the recursion depth of download_artifacts_recursively is at most the
\* folder depth of the source tree and no folder is listed more than once.
C26_Termination == <>Terminated /\ [](RecursionBounded /\ FoldersListedOnce)

\* C27: every run that enters the download phase eventually has reported
\* the summary of the download phase and the summary of the upload phase.
C27_SummaryAlwaysReported == (pc = "Download") ~> (dlResult # <<>> /\ upResult # <<>>)

\* C28: in the script variant, once a listing has failed at any depth the
\* run is aborted with exit code 1, every call of
\* download_artifacts_recursively is gone, no upload was started and the
\* temporary directory is deleted; a download that returned False is left
\* out of the returned count and a run whose only errors are such downloads
\* and failed uploads ends in Done with exit code 0.
C28_LegacyListingErrorPropagates ==
    /\ "list_fail" \in errs =>
         /\ pc = "Aborted"
         /\ exitCode = 1
         /\ stack = <<>>
         /\ ~ENABLED LegacyDownloadFile
         /\ upPhase = "none"
         /\ upCalls = EmptyBag
         /\ ~tempExists
    /\ dlResult # <<>> => dlResult = <<DownloadCallsReturning("True")>>
    /\ (Terminated /\ errs \subseteq {"dl_fail", "up_fail"}) => (pc = "Done" /\ exitCode = 0)

C28_Witness ==
    /\ "sub_list_fail" \in errs
    /\ "dl_fail" \in errs
    /\ DownloadCallsReturning("True") >= 1
    /\ pc = "Aborted"
    /\ tempCreated

\* C29: on a client constructed with retries = 0 no download or upload
\* request is sent, and download_file and upload_file (not a dry run, file
\* readable) return False instead of raising.
C29_ZeroRetriesReturnsFalse ==
    rq.retries = 0 =>
        /\ \A i \in 1..Len(dlCalls) :
               dlCalls[i].requests = 0 /\ dlCalls[i].ret = "False"
        /\ \A i \in 1..Len(upCalls) :
               (~upCalls[i].dry_run /\ upCalls[i].readable) =>
                   upCalls[i].requests = 0 /\ upCalls[i].ret = "False"

\* C30: in the script variant the pairs [idx/total_files] printed by the
\* upload loop have strictly increasing idx and idx <= total_files.
C30_LegacyProgressCounter ==
    \A i \in 1..Len(progress) :
        /\ progress[i].idx <= progress[i].total
        /\ i > 1 => progress[i].idx > progress[i - 1].idx

\* C31: once sync_artifacts has exited, every session that a client opened
\* is closed, whatever the way out after the first client was constructed,
\* and the two clients never hold the same session.
C31_SessionsClosedAtExit ==
    /\ Terminated => \A i \in 1..Len(sessions.objs) : sessions.objs[i] = "closed"
    /\ (sessions.source # 0 /\ sessions.dest # 0) => sessions.source # sessions.dest

====
